---- MODULE Spec2Model ----
(***************************************************************************)
(* Model of src/Lambda/lf1.py: the Lex code hook that validates the slots  *)
(* of the OrderFlowers and MakeDiningSuggestions intents, re-prompts with  *)
(* ElicitSlot, delegates, or closes the conversation.                      *)
(*                                                                         *)
(* Python values are represented as follows.                               *)
(*   str   a sequence of one-character strings, <<"1","4",":","0","0">>    *)
(*   None  in the position of a str: the one-element sequence <<"None">>,  *)
(*         which no str equals (every element of a str is one character)   *)
(*   dict  a function from keys (TLA+ strings) to values                   *)
(*   a formatted message  the record [text, args] of the template and the  *)
(*         values interpolated into it                                     *)
(*   a call  the record [exc, ...]: exc = "none" when the call returns,    *)
(*         and the name of the exception it raises otherwise               *)
(***************************************************************************)
EXTENDS Integers, Sequences, FiniteSets, TLC

VARIABLES event, today, pc, validation, dispatched, returned, elicited, supplied, turns

vars == <<event, today, pc, validation, dispatched, returned, elicited, supplied, turns>>

-----------------------------------------------------------------------------
(* Bounds of the model *)

\* longest time-of-day string enumerated exhaustively
MaxTimeLen == 5

\* most invocations of the handler in one conversation
MaxTurns == 4

-----------------------------------------------------------------------------
(* Python strings *)

None == <<"None">>

NoSlot == "None"

UpperChars == <<"A","B","C","D","E","F","G","H","I","J","K","L","M",
                "N","O","P","Q","R","S","T","U","V","W","X","Y","Z">>

LowerChars == <<"a","b","c","d","e","f","g","h","i","j","k","l","m",
                "n","o","p","q","r","s","t","u","v","w","x","y","z">>

DigitChars == <<"0","1","2","3","4","5","6","7","8","9">>

LowerChar(c) ==
    IF \E i \in 1..26 : UpperChars[i] = c
    THEN LowerChars[CHOOSE i \in 1..26 : UpperChars[i] = c]
    ELSE c

\* str.lower()
lower(s) == [i \in 1..Len(s) |-> LowerChar(s[i])]

IsDigit(c) == \E i \in 1..10 : DigitChars[i] = c

DigitVal(c) == (CHOOSE i \in 1..10 : DigitChars[i] = c) - 1

IsNumber(s) == Len(s) > 0 /\ \A i \in 1..Len(s) : IsDigit(s[i])

RECURSIVE NumberVal(_)
NumberVal(s) ==
    IF Len(s) = 0 THEN 0
    ELSE 10 * NumberVal(SubSeq(s, 1, Len(s) - 1)) + DigitVal(s[Len(s)])

\* str.split(sep) with a one-character separator: the fields between the
\* separators, Count(sep) + 1 of them
RECURSIVE split(_, _)
split(s, sep) ==
    IF \A i \in 1..Len(s) : s[i] # sep
    THEN <<s>>
    ELSE LET k == CHOOSE i \in 1..Len(s) :
                      s[i] = sep /\ \A j \in 1..(i - 1) : s[j] # sep
         IN  <<SubSeq(s, 1, k - 1)>> \o split(SubSeq(s, k + 1, Len(s)), sep)

\* str.strip() of blanks, as int() applies it to its argument
RECURSIVE strip(_)
strip(s) ==
    IF Len(s) > 0 /\ s[1] = " " THEN strip(Tail(s))
    ELSE IF Len(s) > 0 /\ s[Len(s)] = " " THEN strip(SubSeq(s, 1, Len(s) - 1))
    ELSE s

\* A number as parse_int returns it: an int, or float('nan')
Int_(k) == [isnan |-> FALSE, n |-> k]

NaN == [isnan |-> TRUE, n |-> 0]

\* parse_int: int(n), and float('nan') when int raises ValueError.  int
\* accepts blanks around the number and one sign before its digits.
parse_int(n) ==
    LET int(t) ==
            LET signed == Len(t) > 0 /\ t[1] \in {"+", "-"}
                digits == IF signed THEN Tail(t) ELSE t
            IN  IF ~IsNumber(digits) THEN NaN
                ELSE IF signed /\ t[1] = "-" THEN Int_(0 - NumberVal(digits))
                ELSE Int_(NumberVal(digits))
    IN  int(strip(n))

\* math.isnan
isnan(x) == x.isnan

\* x <= k where the code has x < k
lt_or_equal(x, k) == ~x.isnan /\ x.n <= k

\* x < k and x > k: every comparison with not-a-number is false
lt(x, k) == ~x.isnan /\ x.n < k

gt(x, k) == ~x.isnan /\ x.n > k

-----------------------------------------------------------------------------
(* Calendar dates: <<year, month, day>> *)

IsLeap(y) == (y % 4 = 0 /\ y % 100 # 0) \/ y % 400 = 0

DaysInMonth(y, m) ==
    IF m = 2 THEN (IF IsLeap(y) THEN 29 ELSE 28)
    ELSE IF m \in {4, 6, 9, 11} THEN 30 ELSE 31

\* datetime.date(y, m, d) does not raise ValueError
IsCalendarDate(y, m, d) ==
    /\ y \in 1..9999
    /\ m \in 1..12
    /\ d \in 1..DaysInMonth(y, m)

\* d1 <= d2 on datetime.date
DateLe(d1, d2) ==
    d1[1] * 10000 + d1[2] * 100 + d1[3] <= d2[1] * 10000 + d2[2] * 100 + d2[3]

Parsed(d) == [exc |-> "none", date |-> d]

ParseError == [exc |-> "ValueError", date |-> <<0, 0, 0>>]

\* dateutil.parser.parse on the strings the model draws (DateSamples): three
\* numeric fields separated by "-" or "/", with a year of more than two
\* digits first (year, month, day) or last (month, day, year; or day, month,
\* year when the first field exceeds 12), and strings with no digit in them,
\* which are no date.  A field out of range, or a day past the end of its
\* month, is ParserError, a ValueError.  (dateutil reads many more forms,
\* month names and partial dates among them; none of those is drawn.)
dateutil_parse(s) ==
    LET resolve(f, a, b, c) ==
            LET ymd == IF Len(f[1]) > 2 THEN <<a, b, c>>
                       ELSE IF a > 12 THEN <<c, b, a>>
                       ELSE <<c, a, b>>
            IN  IF (Len(f[1]) > 2 \/ Len(f[3]) > 2)
                   /\ IsCalendarDate(ymd[1], ymd[2], ymd[3])
                THEN Parsed(ymd)
                ELSE ParseError
        fields(f) ==
            IF Len(f) # 3 \/ \E i \in 1..3 : ~IsNumber(f[i]) THEN ParseError
            ELSE resolve(f, NumberVal(f[1]), NumberVal(f[2]), NumberVal(f[3]))
    IN  fields(split(s, IF \E i \in 1..Len(s) : s[i] = "/" THEN "/" ELSE "-"))

\* datetime.datetime.strptime(date, '%Y-%m-%d').date(): four digits, "-",
\* a month of one or two digits, "-", a day of one or two digits, and
\* nothing else; ValueError otherwise
strptime_Ymd(s) ==
    LET date(y, m, d) ==
            IF IsCalendarDate(y, m, d) THEN Parsed(<<y, m, d>>) ELSE ParseError
        fields(f) ==
            IF /\ Len(f) = 3
               /\ \A i \in 1..3 : IsNumber(f[i])
               /\ Len(f[1]) = 4
               /\ Len(f[2]) \in 1..2
               /\ Len(f[3]) \in 1..2
            THEN date(NumberVal(f[1]), NumberVal(f[2]), NumberVal(f[3]))
            ELSE ParseError
    IN  fields(split(s, "-"))

-----------------------------------------------------------------------------
(* Helper functions *)

\* a formatted message text: the template and the values put into it
Text(template, args) == [text |-> template, args |-> args]

NoContent == [text |-> "None", args |-> <<>>]

PlainText(content) == [contentType |-> "PlainText", content |-> content]

build_validation_result(is_valid, violated_slot, message_content) ==
    IF message_content = NoContent
    THEN [isValid |-> is_valid, violatedSlot |-> violated_slot]
    ELSE [isValid |-> is_valid, violatedSlot |-> violated_slot,
          message |-> PlainText(message_content)]

isvalid_date(date) == dateutil_parse(date).exc = "none"

\* a call that returns v, and a call that raises e
Return(v) == [exc |-> "none", val |-> v]

Raise(e) == [exc |-> e, val |-> [isValid |-> FALSE, violatedSlot |-> NoSlot]]

flower_types == { <<"l","i","l","i","e","s">>, <<"r","o","s","e","s">>,
                  <<"t","u","l","i","p","s">> }

validate_order_flowers(flower_type, date, pickup_time, now) ==
    LET window(hour, minute) ==
            IF isnan(hour) \/ isnan(minute)
            THEN Return(build_validation_result(FALSE, "PickupTime", NoContent))
            ELSE IF lt(hour, 10) \/ gt(hour, 16)
            THEN Return(build_validation_result(FALSE, "PickupTime",
                            Text("Our business hours are from ten a m. to five p m.", <<>>)))
            ELSE Return(build_validation_result(TRUE, NoSlot, NoContent))
        unpack(f) ==
            IF Len(f) # 2 THEN Raise("ValueError")
            ELSE window(parse_int(f[1]), parse_int(f[2]))
        time_check ==
            IF pickup_time # None /\ Len(pickup_time) # 5
            THEN Return(build_validation_result(FALSE, "PickupTime", NoContent))
            ELSE IF pickup_time # None
            THEN unpack(split(pickup_time, ":"))
            ELSE Return(build_validation_result(TRUE, NoSlot, NoContent))
        compare(parsed) ==
            IF parsed.exc # "none" THEN Raise("ValueError")
            ELSE IF DateLe(parsed.date, now)
            THEN Return(build_validation_result(FALSE, "PickupDate",
                            Text("You can pick up the flowers from tomorrow onwards.", <<>>)))
            ELSE time_check
    IN  IF flower_type # None /\ lower(flower_type) \notin flower_types
        THEN Return(build_validation_result(FALSE, "FlowerType",
                        Text("We do not have {}, would you like a different type of flower?",
                             <<flower_type>>)))
        ELSE IF date # None /\ ~isvalid_date(date)
        THEN Return(build_validation_result(FALSE, "PickupDate",
                        Text("I did not understand that, what date would you like to pick the flowers up?",
                             <<>>)))
        ELSE IF date # None
        THEN compare(strptime_Ymd(date))
        ELSE time_check

cuisine_types == { <<"m","e","x","i","c","a","n">>, <<"t","h","a","i">>,
                   <<"c","h","i","n","e","s","e">>, <<"i","t","a","l","i","a","n">>,
                   <<"i","n","d","i","a","n">> }

loc_types == { <<"m","a","n","h","a","t","t","a","n">> }

\* a validate_make_suggestions that leaves the location unchecked
validate_make_suggestions_no_location(cuisine_type, location, dining_time) ==
    LET window(hour, minute) ==
            IF isnan(hour) \/ isnan(minute)
            THEN Return(build_validation_result(FALSE, "DiningTime", NoContent))
            ELSE IF lt(hour, 17) \/ gt(hour, 20)
            THEN Return(build_validation_result(FALSE, "DiningTime",
                            Text("Most dining hours are from five p m. to eight p m.", <<>>)))
            ELSE Return(build_validation_result(TRUE, NoSlot, NoContent))
        unpack(f) ==
            IF Len(f) # 2 THEN Raise("ValueError")
            ELSE window(parse_int(f[1]), parse_int(f[2]))
    IN  IF cuisine_type # None /\ lower(cuisine_type) \notin cuisine_types
        THEN Return(build_validation_result(FALSE, "Cuisine",
                        Text("We do not have suggestions for {}, would you like a Cuisine?",
                             <<cuisine_type>>)))
        ELSE IF dining_time # None /\ Len(dining_time) # 5
        THEN Return(build_validation_result(FALSE, "DiningTime", NoContent))
        ELSE IF dining_time # None
        THEN unpack(split(dining_time, ":"))
        ELSE Return(build_validation_result(TRUE, NoSlot, NoContent))

validate_make_suggestions(cuisine_type, location, dining_time) ==
    LET window(hour, minute) ==
            IF isnan(hour) \/ isnan(minute)
            THEN Return(build_validation_result(FALSE, "DiningTime", NoContent))
            ELSE IF lt(hour, 17) \/ gt(hour, 20)
            THEN Return(build_validation_result(FALSE, "DiningTime",
                            Text("Most dining hours are from five p m. to eight p m.", <<>>)))
            ELSE Return(build_validation_result(TRUE, NoSlot, NoContent))
        unpack(f) ==
            IF Len(f) # 2 THEN Raise("ValueError")
            ELSE window(parse_int(f[1]), parse_int(f[2]))
    IN  IF cuisine_type # None /\ lower(cuisine_type) \notin cuisine_types
        THEN Return(build_validation_result(FALSE, "Cuisine",
                        Text("We do not have suggestions for {}, would you like a Cuisine?",
                             <<cuisine_type>>)))
        ELSE IF location # None /\ lower(location) \notin loc_types
        THEN Return(build_validation_result(FALSE, "Location",
                        Text("We do not have suggestions for {}. We currently only have suggestions for Manhattan.",
                             <<location>>)))
        ELSE IF dining_time # None /\ Len(dining_time) # 5
        THEN Return(build_validation_result(FALSE, "DiningTime", NoContent))
        ELSE IF dining_time # None
        THEN unpack(split(dining_time, ":"))
        ELSE Return(build_validation_result(TRUE, NoSlot, NoContent))

-----------------------------------------------------------------------------
(* Helpers to build responses *)

\* sessionAttributes is None: no dict equals it
NoAttrs == [None |-> 0]

EmptyDict == [k \in {} |-> 0]

\* d[k] = v on a dict
Put(d, k, v) == [x \in (DOMAIN d) \cup {k} |-> IF x = k THEN v ELSE d[x]]

get_slots(intent_request) == intent_request.currentIntent.slots

elicit_slot(session_attributes, intent_name, slots, slot_to_elicit, message) ==
    [sessionAttributes |-> session_attributes,
     dialogAction |-> [type |-> "ElicitSlot",
                       intentName |-> intent_name,
                       slots |-> slots,
                       slotToElicit |-> slot_to_elicit,
                       message |-> message]]

close(session_attributes, fulfillment_state, message) ==
    [sessionAttributes |-> session_attributes,
     dialogAction |-> [type |-> "Close",
                       fulfillmentState |-> fulfillment_state,
                       message |-> message]]

delegate(session_attributes, slots) ==
    [sessionAttributes |-> session_attributes,
     dialogAction |-> [type |-> "Delegate",
                       slots |-> slots]]

-----------------------------------------------------------------------------
(* Functions that control the bot's behaviour *)

\* the validation a handler has not run
NotRun == [exc |-> "notrun", val |-> [isValid |-> FALSE, violatedSlot |-> NoSlot]]

NoResponse == [sessionAttributes |-> NoAttrs, dialogAction |-> [type |-> "none"]]

\* What a call of a handler leaves: the response it returns (exc = "none")
\* or the exception it raises, the request's slot dict as the call leaves it
\* (the handler clears the violated slot in the request's own dict, which is
\* also the dict of the response), the result of the validation it ran, and
\* the handler that ran.
Returned(resp, slots, v, h) ==
    [exc |-> "none", ret |-> resp, slots |-> slots, validation |-> v, handler |-> h]

Raised(e, slots, v, h) ==
    [exc |-> e, ret |-> NoResponse, slots |-> slots, validation |-> v, handler |-> h]

\* a price that counts one character too few
Price_short(flower_type) == (Len(flower_type) - 1) * 5

\* the elegant pricing model
Price(flower_type) == Len(flower_type) * 5

\* order_flowers when invocationSource is 'DialogCodeHook'
order_flowers_dialog(intent_request, now) ==
    LET flower_type == get_slots(intent_request)["FlowerType"]
        date        == get_slots(intent_request)["PickupDate"]
        pickup_time == get_slots(intent_request)["PickupTime"]
        h           == "order_flowers"
        elicit(validation_result, slots) ==
            IF "message" \notin DOMAIN validation_result.val
            THEN Raised("KeyError", slots, validation_result, h)
            ELSE Returned(elicit_slot(intent_request.sessionAttributes,
                                      intent_request.currentIntent.name,
                                      slots,
                                      validation_result.val.violatedSlot,
                                      validation_result.val.message),
                          slots, validation_result, h)
        price(output_session_attributes) ==
            IF flower_type # None
            THEN Put(output_session_attributes, "Price", Price(flower_type))
            ELSE output_session_attributes
        validated(validation_result) ==
            IF validation_result.exc # "none"
            THEN Raised(validation_result.exc, get_slots(intent_request),
                        validation_result, h)
            ELSE IF ~validation_result.val.isValid
            THEN elicit(validation_result,
                        [get_slots(intent_request) EXCEPT
                            ![validation_result.val.violatedSlot] = None])
            ELSE Returned(delegate(price(IF intent_request.sessionAttributes # NoAttrs
                                         THEN intent_request.sessionAttributes
                                         ELSE EmptyDict),
                                   get_slots(intent_request)),
                          get_slots(intent_request), validation_result, h)
    IN  validated(validate_order_flowers(flower_type, date, pickup_time, now))

\* order_flowers on any other invocationSource: the order is placed
order_flowers_fulfill(intent_request) ==
    LET flower_type == get_slots(intent_request)["FlowerType"]
        date        == get_slots(intent_request)["PickupDate"]
        pickup_time == get_slots(intent_request)["PickupTime"]
    IN  Returned(close(intent_request.sessionAttributes,
                       "Fulfilled",
                       PlainText(Text("Thanks, your order for {} has been placed and will be ready for pickup by {} on {}",
                                      <<flower_type, pickup_time, date>>))),
                 get_slots(intent_request), NotRun, "order_flowers")

\* an order_flowers that validates on every invocation source
order_flowers_validating(intent_request, now) ==
    order_flowers_dialog(intent_request, now)

order_flowers(intent_request, now) ==
    IF intent_request.invocationSource = "DialogCodeHook"
    THEN order_flowers_dialog(intent_request, now)
    ELSE order_flowers_fulfill(intent_request)

\* make_suggestions when invocationSource is 'DialogCodeHook'
make_suggestions_dialog(intent_request) ==
    LET cuisine_type == get_slots(intent_request)["Cuisine"]
        location     == get_slots(intent_request)["Location"]
        dining_time  == get_slots(intent_request)["DiningTime"]
        h            == "make_suggestions"
        elicit(validation_result, slots) ==
            IF "message" \notin DOMAIN validation_result.val
            THEN Raised("KeyError", slots, validation_result, h)
            ELSE Returned(elicit_slot(intent_request.sessionAttributes,
                                      intent_request.currentIntent.name,
                                      slots,
                                      validation_result.val.violatedSlot,
                                      validation_result.val.message),
                          slots, validation_result, h)
        validated(validation_result) ==
            IF validation_result.exc # "none"
            THEN Raised(validation_result.exc, get_slots(intent_request),
                        validation_result, h)
            ELSE IF ~validation_result.val.isValid
            THEN elicit(validation_result,
                        [get_slots(intent_request) EXCEPT
                            ![validation_result.val.violatedSlot] = None])
            ELSE Returned(delegate(IF intent_request.sessionAttributes # NoAttrs
                                   THEN intent_request.sessionAttributes
                                   ELSE EmptyDict,
                                   get_slots(intent_request)),
                          get_slots(intent_request), validation_result, h)
    IN  validated(validate_make_suggestions(cuisine_type, location, dining_time))

\* make_suggestions on any other invocationSource
make_suggestions_fulfill(intent_request) ==
    LET cuisine_type == get_slots(intent_request)["Cuisine"]
        location     == get_slots(intent_request)["Location"]
        dining_time  == get_slots(intent_request)["DiningTime"]
        numPeople    == get_slots(intent_request)["NumPeople"]
        phoneNumber  == get_slots(intent_request)["PhoneNumber"]
    IN  Returned(close(intent_request.sessionAttributes,
                       "Fulfilled",
                       PlainText(Text("Thanks an sms of suggestions for {} food in {} at {} for {} people would be sent to {}.",
                                      <<cuisine_type, location, dining_time,
                                        numPeople, phoneNumber>>))),
                 get_slots(intent_request), NotRun, "make_suggestions")

make_suggestions(intent_request) ==
    IF intent_request.invocationSource = "DialogCodeHook"
    THEN make_suggestions_dialog(intent_request)
    ELSE make_suggestions_fulfill(intent_request)

-----
(* Intents *)

Greeting == Text("Hey there, how can I help you?", <<>>)

ThankYou == Text("Thanks for coming!", <<>>)

\* a dispatch whose MakeThankYou branch repeats the MakeGreeting one
dispatch_thanks_as_greeting(intent_request, now) ==
    LET intent_name == intent_request.currentIntent.name
    IN  IF intent_name = "OrderFlowers"
        THEN order_flowers(intent_request, now)
        ELSE IF intent_name = "MakeGreeting"
        THEN Returned(close(intent_request.sessionAttributes, "Fulfilled",
                            PlainText(Greeting)),
                      get_slots(intent_request), NotRun, "greeting")
        ELSE IF intent_name = "MakeThankYou"
        THEN Returned(close(intent_request.sessionAttributes, "Fulfilled",
                            PlainText(Greeting)),
                      get_slots(intent_request), NotRun, "greeting")
        ELSE IF intent_name = "MakeDiningSuggestions"
        THEN make_suggestions(intent_request)
        ELSE Raised("Exception: intent not supported", get_slots(intent_request),
                    NotRun, "none")

dispatch(intent_request, now) ==
    LET intent_name == intent_request.currentIntent.name
    IN  IF intent_name = "OrderFlowers"
        THEN order_flowers(intent_request, now)
        ELSE IF intent_name = "MakeGreeting"
        THEN Returned(close(intent_request.sessionAttributes, "Fulfilled",
                            PlainText(Greeting)),
                      get_slots(intent_request), NotRun, "greeting")
        ELSE IF intent_name = "MakeThankYou"
        THEN Returned(close(intent_request.sessionAttributes, "Fulfilled",
                            PlainText(ThankYou)),
                      get_slots(intent_request), NotRun, "thankyou")
        ELSE IF intent_name = "MakeDiningSuggestions"
        THEN make_suggestions(intent_request)
        ELSE Raised("Exception: intent not supported", get_slots(intent_request),
                    NotRun, "none")

-----------------------------------------------------------------------------
(* Main handler *)

\* For a Close response that is neither fixed message the handler reads
\* tArray, a name nothing defines (the split text is bound to arr):
\* NameError, before anything is sent or returned.
lambda_handler(ev, now) ==
    LET route(temp) ==
            IF temp.exc # "none" THEN temp
            ELSE IF temp.ret.dialogAction.type = "Close"
            THEN IF temp.ret.dialogAction.message.content = Greeting
                    \/ temp.ret.dialogAction.message.content = ThankYou
                 THEN temp
                 ELSE Raised("NameError", temp.slots, temp.validation, temp.handler)
            ELSE temp
    IN  route(dispatch(ev, now))

-----------------------------------------------------------------------------
(* The requests the host sends *)

FlowerSamples == { None,
                   <<"r","o","s","e","s">>,
                   <<"R","o","s","e","s">>,
                   <<"t","u","l","i","p","s">>,
                   <<"d","a","i","s","y">> }

CuisineSamples == { None,
                    <<"t","h","a","i">>,
                    <<"T","h","a","i">>,
                    <<"s","u","s","h","i">> }

LocationSamples == { None,
                     <<"m","a","n","h","a","t","t","a","n">>,
                     <<"M","a","n","h","a","t","t","a","n">>,
                     <<"b","r","o","n","x">> }

\* today, and PickupDate values before, on and after it, no calendar date,
\* a date in another notation, and no date at all
Todays == { <<2026, 11, 3>>, <<2026, 12, 31>> }

DateSamples == { None,
                 <<"2","0","2","6","-","1","1","-","0","3">>,
                 <<"2","0","2","6","-","1","1","-","0","4">>,
                 <<"2","0","2","6","-","1","2","-","3","1">>,
                 <<"2","0","2","7","-","0","1","-","0","1">>,
                 <<"2","0","2","6","-","0","2","-","3","0">>,
                 <<"0","1","/","0","5","/","2","0","2","7">>,
                 <<"x","x">> }

\* inside the flower window, inside the dining window, outside both, too
\* short, a non-numeric hour, no colon, two colons, and a blank-padded hour
TimeSamples == { None,
                 <<"1","1",":","1","7">>,
                 <<"1","7",":","1","1">>,
                 <<"7","7",":","1","1">>,
                 <<"1","1","1","7">>,
                 <<"1","a",":","1","1">>,
                 <<"1","1","7","1","1">>,
                 <<"1",":","1",":","1">>,
                 <<" ","1","1",":","1">> }

TimeChars == {"1", "7", ":", "a"}

\* every string over TimeChars of at most MaxTimeLen characters
TimeStrings == UNION { [1..k -> TimeChars] : k \in 0..MaxTimeLen }

PeopleSamples == { None, <<"2">> }

PhoneSamples == { None, <<"5","5","5","5","5","5","5","5","5","5">> }

AttrSamples == { NoAttrs, EmptyDict, [seen |-> 1] }

Sources == { "DialogCodeHook", "FulfillmentCodeHook" }

Request(name, source, slots, attrs) ==
    [currentIntent |-> [name |-> name, slots |-> slots],
     invocationSource |-> source,
     sessionAttributes |-> attrs]

FlowerSlots(f, d, t) == [FlowerType |-> f, PickupDate |-> d, PickupTime |-> t]

DiningSlots(c, l, t, n, ph) ==
    [Cuisine |-> c, Location |-> l, DiningTime |-> t, NumPeople |-> n,
     PhoneNumber |-> ph]

FlowerRequests ==
    { Request("OrderFlowers", src, FlowerSlots(f, d, t), a) :
        src \in Sources, f \in FlowerSamples, d \in DateSamples,
        t \in TimeSamples, a \in AttrSamples }

DiningRequests ==
    { Request("MakeDiningSuggestions", src, DiningSlots(c, l, t, n[1], n[2]), a) :
        src \in Sources, c \in CuisineSamples, l \in LocationSamples,
        t \in TimeSamples,
        n \in { <<None, None>> } \cup
              { <<x, y>> : x \in PeopleSamples \ {None}, y \in PhoneSamples \ {None} },
        a \in AttrSamples }

\* the two intents without slots, and names dispatch does not know
OtherRequests ==
    { Request(name, src, EmptyDict, a) :
        name \in { "MakeGreeting", "MakeThankYou", "GetWeather", "orderflowers" },
        src \in Sources, a \in AttrSamples }

Requests == FlowerRequests \cup DiningRequests \cup OtherRequests

\* the values a user may answer with when asked for a slot
Answers(slot) ==
    IF slot = "FlowerType" THEN FlowerSamples \ {None}
    ELSE IF slot = "Cuisine" THEN CuisineSamples \ {None}
    ELSE IF slot = "Location" THEN LocationSamples \ {None}
    ELSE IF slot = "PickupDate" THEN DateSamples \ {None}
    ELSE TimeSamples \ {None}

NoCall == Raised("notcalled", EmptyDict, NotRun, "none")

-----------------------------------------------------------------------------
(* The conversation: the host invokes lambda_handler once per turn *)

Init ==
    /\ event \in Requests
    /\ today \in Todays
    /\ pc = "pending"
    /\ validation = NotRun
    /\ dispatched = NoCall
    /\ returned = NoCall
    /\ elicited = <<>>
    /\ supplied = FALSE
    /\ turns = 0

\* one invocation: lambda_handler(event, context), and what dispatch
\* returned to it
LambdaHandler ==
    /\ pc = "pending"
    /\ dispatched' = dispatch(event, today)
    /\ returned' = lambda_handler(event, today)
    /\ validation' = dispatched'.validation
    /\ pc' = "done"
    /\ turns' = turns + 1
    /\ UNCHANGED <<event, today, elicited, supplied>>

Elicits ==
    /\ pc = "done"
    /\ returned.exc = "none"
    /\ returned.ret.dialogAction.type = "ElicitSlot"

\* the host invokes the handler again with the slots and session
\* attributes of the ElicitSlot response, the user having given no value
HostReinvoke ==
    /\ Elicits
    /\ turns < MaxTurns
    /\ event' = [event EXCEPT
                    !.currentIntent.slots = returned.ret.dialogAction.slots,
                    !.sessionAttributes = returned.ret.sessionAttributes]
    /\ elicited' = Append(elicited, returned.ret.dialogAction.slotToElicit)
    /\ pc' = "pending"
    /\ UNCHANGED <<today, validation, dispatched, returned, supplied, turns>>

\* the user answers the prompt: the host invokes the handler with the
\* elicited slot set to the answer
HostSupply ==
    /\ Elicits
    /\ turns < MaxTurns
    /\ \E v \in Answers(returned.ret.dialogAction.slotToElicit) :
          event' = [event EXCEPT
                       !.currentIntent.slots =
                           [returned.ret.dialogAction.slots EXCEPT
                               ![returned.ret.dialogAction.slotToElicit] = v],
                       !.sessionAttributes = returned.ret.sessionAttributes]
    /\ elicited' = Append(elicited, returned.ret.dialogAction.slotToElicit)
    /\ supplied' = TRUE
    /\ pc' = "pending"
    /\ UNCHANGED <<today, validation, dispatched, returned, turns>>

\* after Delegate the host, with nothing left to ask, invokes the handler
\* for fulfillment with the slots and session attributes of the response
HostFulfill ==
    /\ pc = "done"
    /\ returned.exc = "none"
    /\ returned.ret.dialogAction.type = "Delegate"
    /\ turns < MaxTurns
    /\ event' = [event EXCEPT
                    !.invocationSource = "FulfillmentCodeHook",
                    !.currentIntent.slots = returned.ret.dialogAction.slots,
                    !.sessionAttributes = returned.ret.sessionAttributes]
    /\ pc' = "pending"
    /\ UNCHANGED <<today, validation, dispatched, returned, elicited, supplied, turns>>

Next == LambdaHandler \/ HostReinvoke \/ HostSupply \/ HostFulfill

Spec == Init /\ [][Next]_vars

-----------------------------------------------------------------------------
(* The validation functions alone, on every time-of-day string *)

ValidateRequests ==
    { Request("OrderFlowers", "DialogCodeHook", FlowerSlots(f, d, t), NoAttrs) :
        f \in FlowerSamples, d \in DateSamples, t \in TimeSamples }
    \cup
    { Request("OrderFlowers", "DialogCodeHook", FlowerSlots(f, d, t), NoAttrs) :
        f \in { None, <<"r","o","s","e","s">>, <<"d","a","i","s","y">> },
        d \in { None, <<"2","0","2","7","-","0","1","-","0","1">> },
        t \in TimeStrings }
    \cup
    { Request("MakeDiningSuggestions", "DialogCodeHook",
              DiningSlots(c, l, t, None, None), NoAttrs) :
        c \in CuisineSamples, l \in LocationSamples, t \in TimeSamples }
    \cup
    { Request("MakeDiningSuggestions", "DialogCodeHook",
              DiningSlots(c, l, t, None, None), NoAttrs) :
        c \in { None, <<"t","h","a","i">> },
        l \in { None, <<"b","r","o","n","x">> },
        t \in TimeStrings }

InitValidate ==
    /\ event \in ValidateRequests
    /\ today \in Todays
    /\ pc = "validate"
    /\ validation = NotRun
    /\ dispatched = NoCall
    /\ returned = NoCall
    /\ elicited = <<>>
    /\ supplied = FALSE
    /\ turns = 0

ValidateOrderFlowers ==
    /\ pc = "validate"
    /\ event.currentIntent.name = "OrderFlowers"
    /\ validation' = validate_order_flowers(get_slots(event)["FlowerType"],
                                            get_slots(event)["PickupDate"],
                                            get_slots(event)["PickupTime"], today)
    /\ pc' = "validated"
    /\ UNCHANGED <<event, today, dispatched, returned, elicited, supplied, turns>>

ValidateMakeSuggestions ==
    /\ pc = "validate"
    /\ event.currentIntent.name = "MakeDiningSuggestions"
    /\ validation' = validate_make_suggestions(get_slots(event)["Cuisine"],
                                               get_slots(event)["Location"],
                                               get_slots(event)["DiningTime"])
    /\ pc' = "validated"
    /\ UNCHANGED <<event, today, dispatched, returned, elicited, supplied, turns>>

NextValidate == ValidateOrderFlowers \/ ValidateMakeSuggestions

SpecValidate == InitValidate /\ [][NextValidate]_vars

-----------------------------------------------------------------------------
(* Vocabulary of the properties *)

IntentName == event.currentIntent.name

Slot(name) == get_slots(event)[name]

Dialog == event.invocationSource = "DialogCodeHook"

Slotted == IntentName \in { "OrderFlowers", "MakeDiningSuggestions" }

Registered == { "OrderFlowers", "MakeGreeting", "MakeThankYou", "MakeDiningSuggestions" }

\* the time slot of the intent, and its window of hours
TimeSlot == IF IntentName = "OrderFlowers" THEN "PickupTime" ELSE "DiningTime"

FirstHour == IF IntentName = "OrderFlowers" THEN 10 ELSE 17

LastHour == IF IntentName = "OrderFlowers" THEN 16 ELSE 20

\* HH:MM: two digits, a colon, two digits
IsHHMM(t) ==
    /\ Len(t) = 5
    /\ IsDigit(t[1]) /\ IsDigit(t[2])
    /\ t[3] = ":"
    /\ IsDigit(t[4]) /\ IsDigit(t[5])

HourOf(t) == 10 * DigitVal(t[1]) + DigitVal(t[2])

TimeOK(t) ==
    t = None \/ (IsHHMM(t) /\ HourOf(t) >= FirstHour /\ HourOf(t) <= LastHour)

EnumOK(v, allowed) == v = None \/ lower(v) \in allowed

\* a date in the notation of the slot type, YYYY-MM-DD, strictly after today
DateOK(d) ==
    d = None \/ (strptime_Ymd(d).exc = "none" /\ ~DateLe(strptime_Ymd(d).date, today))

\* the slots checked before the time slot are absent or valid
EarlierOK ==
    IF IntentName = "OrderFlowers"
    THEN EnumOK(Slot("FlowerType"), flower_types) /\ DateOK(Slot("PickupDate"))
    ELSE EnumOK(Slot("Cuisine"), cuisine_types) /\ EnumOK(Slot("Location"), loc_types)

\* every present slot satisfies its rule
AllOK == EarlierOK /\ TimeOK(Slot(TimeSlot))

Valid == Return([isValid |-> TRUE, violatedSlot |-> NoSlot])

Invalid(slot) ==
    /\ validation.exc = "none"
    /\ ~validation.val.isValid
    /\ validation.val.violatedSlot = slot

-----------------------------------------------------------------------------
(* Properties *)

\* C1: on a dialog turn of OrderFlowers or MakeDiningSuggestions, whenever
\* validation reports an invalid slot, with or without a message, the handler
\* returns ElicitSlot for the violated slot, with that slot cleared, every
\* other slot as in the request and the request's session attributes; it
\* never raises.
C1_InvalidSlotIsElicited ==
    (pc = "done" /\ Slotted /\ Dialog
        /\ validation.exc = "none" /\ ~validation.val.isValid)
    => /\ dispatched.exc = "none"
       /\ dispatched.ret.dialogAction.type = "ElicitSlot"
       /\ dispatched.ret.dialogAction.slotToElicit = validation.val.violatedSlot
       /\ dispatched.ret.dialogAction.slots =
              [get_slots(event) EXCEPT ![validation.val.violatedSlot] = None]
       /\ dispatched.ret.sessionAttributes = event.sessionAttributes

\* C2: a present time-of-day string that is not HH:MM, the earlier slots
\* being absent or valid, is reported invalid on the time slot with no
\* message, and validation does not raise.
C2_MalformedTimeHasNoMessage ==
    (pc = "validated" /\ EarlierOK
        /\ Slot(TimeSlot) # None /\ ~IsHHMM(Slot(TimeSlot)))
    => /\ Invalid(TimeSlot)
       /\ "message" \notin DOMAIN validation.val

\* C3: validate_order_flowers never raises on a present PickupDate
\* (FlowerType absent or valid, no PickupTime): a string that is no date is
\* invalid on PickupDate with the 'did not understand' message, and a string
\* accepted as a date that is today or earlier is invalid on PickupDate with
\* the 'tomorrow onwards' message.
C3_DateNeverRaises ==
    (pc = "validated" /\ IntentName = "OrderFlowers"
        /\ EnumOK(Slot("FlowerType"), flower_types)
        /\ Slot("PickupDate") # None /\ Slot("PickupTime") = None)
    => /\ validation.exc = "none"
       /\ ~isvalid_date(Slot("PickupDate"))
            => /\ Invalid("PickupDate")
               /\ validation.val.message.content.text =
                      "I did not understand that, what date would you like to pick the flowers up?"
       /\ (isvalid_date(Slot("PickupDate"))
            /\ DateLe(dateutil_parse(Slot("PickupDate")).date, today))
            => /\ Invalid("PickupDate")
               /\ validation.val.message.content.text =
                      "You can pick up the flowers from tomorrow onwards."

\* an enumerated slot whose present value is, case-insensitively, outside
\* its allow-list
EnumBad(name, allowed) == Slot(name) # None /\ lower(Slot(name)) \notin allowed

\* C4, as stated: an enumerated slot with a present value outside its
\* allow-list is the violated slot, whatever the other slots hold.
C4_EnumViolationAnyOthers ==
    pc = "validated"
    => IF IntentName = "OrderFlowers"
       THEN EnumBad("FlowerType", flower_types) => Invalid("FlowerType")
       ELSE /\ EnumBad("Cuisine", cuisine_types) => Invalid("Cuisine")
            /\ EnumBad("Location", loc_types) => Invalid("Location")

\* C4, amended: FlowerType and Cuisine, checked first, are the violated slot
\* whatever the other slots hold; Location is the violated slot when Cuisine
\* is absent or allowed, and Cuisine is when both are outside their lists.
C4_FirstEnumViolation ==
    pc = "validated"
    => IF IntentName = "OrderFlowers"
       THEN EnumBad("FlowerType", flower_types) => Invalid("FlowerType")
       ELSE /\ EnumBad("Cuisine", cuisine_types) => Invalid("Cuisine")
            /\ (EnumBad("Location", loc_types)
                  /\ EnumOK(Slot("Cuisine"), cuisine_types))
               => Invalid("Location")

C4_Witness ==
    /\ pc = "validated"
    /\ IntentName = "MakeDiningSuggestions"
    /\ EnumBad("Location", loc_types)
    /\ Slot("Cuisine") # None /\ EnumOK(Slot("Cuisine"), cuisine_types)
    /\ Slot("DiningTime") # None /\ ~TimeOK(Slot("DiningTime"))
    /\ Invalid("Location")

\* C5: dispatch raises the unsupported-intent error, with no response, for
\* every name it does not register; each registered name reaches its own
\* handler; MakeGreeting and MakeThankYou return their fixed Close/Fulfilled
\* message on every invocation source, with the request's session attributes
\* and no validation.
C5_Dispatch ==
    pc = "done"
    => /\ IntentName \notin Registered
            => /\ dispatched.exc = "Exception: intent not supported"
               /\ dispatched.ret = NoResponse
               /\ dispatched.handler = "none"
       /\ IntentName = "OrderFlowers" => dispatched.handler = "order_flowers"
       /\ IntentName = "MakeDiningSuggestions"
            => dispatched.handler = "make_suggestions"
       /\ IntentName = "MakeGreeting"
            => /\ dispatched.handler = "greeting"
               /\ dispatched.exc = "none"
               /\ dispatched.ret = close(event.sessionAttributes, "Fulfilled",
                                         PlainText(Text("Hey there, how can I help you?", <<>>)))
               /\ validation = NotRun
       /\ IntentName = "MakeThankYou"
            => /\ dispatched.handler = "thankyou"
               /\ dispatched.exc = "none"
               /\ dispatched.ret = close(event.sessionAttributes, "Fulfilled",
                                         PlainText(Text("Thanks for coming!", <<>>)))
               /\ validation = NotRun

C5_Witness ==
    /\ pc = "done"
    /\ IntentName = "MakeThankYou"
    /\ Dialog
    /\ event.sessionAttributes = [seen |-> 1]
    /\ dispatched.exc = "none"
    /\ dispatched.ret.dialogAction.type = "Close"

\* C6: on any invocation source other than the dialog turn, order_flowers
\* and make_suggestions run no validation: they return Close with
\* fulfillmentState 'Fulfilled' and leave the slot mapping as it was, also
\* when it holds values validation would reject.
C6_FulfillmentSkipsValidation ==
    (pc = "done" /\ Slotted /\ ~Dialog)
    => /\ dispatched.exc = "none"
       /\ dispatched.ret.dialogAction.type = "Close"
       /\ dispatched.ret.dialogAction.fulfillmentState = "Fulfilled"
       /\ dispatched.ret.sessionAttributes = event.sessionAttributes
       /\ dispatched.slots = get_slots(event)
       /\ validation = NotRun

C6_Witness ==
    /\ pc = "done"
    /\ IntentName = "OrderFlowers"
    /\ ~Dialog
    /\ ~AllOK
    /\ dispatched.exc = "none"
    /\ dispatched.ret.dialogAction.type = "Close"

\* the session attributes of the request, an empty mapping when it has none
BaseAttrs ==
    IF event.sessionAttributes = NoAttrs THEN EmptyDict ELSE event.sessionAttributes

\* C7: on a dialog turn of OrderFlowers with every present slot valid, the
\* response is Delegate with the request's slots unchanged and the request's
\* session attributes (an empty mapping when it has none) plus
\* Price = 5 x len(FlowerType) when FlowerType is present, and no Price
\* added when it is absent.
C7_ValidOrderDelegates ==
    (pc = "done" /\ IntentName = "OrderFlowers" /\ Dialog /\ AllOK)
    => /\ dispatched.exc = "none"
       /\ dispatched.ret.dialogAction.type = "Delegate"
       /\ dispatched.ret.dialogAction.slots = get_slots(event)
       /\ dispatched.slots = get_slots(event)
       /\ IF Slot("FlowerType") = None
          THEN dispatched.ret.sessionAttributes = BaseAttrs
          ELSE /\ DOMAIN dispatched.ret.sessionAttributes =
                      (DOMAIN BaseAttrs) \cup {"Price"}
               /\ dispatched.ret.sessionAttributes["Price"] =
                      5 * Len(Slot("FlowerType"))
               /\ \A k \in (DOMAIN BaseAttrs) \ {"Price"} :
                      dispatched.ret.sessionAttributes[k] = BaseAttrs[k]

C7_Witness ==
    /\ pc = "done"
    /\ IntentName = "OrderFlowers"
    /\ Dialog
    /\ AllOK
    /\ Slot("FlowerType") = <<"r","o","s","e","s">>
    /\ Slot("PickupDate") # None
    /\ Slot("PickupTime") # None
    /\ event.sessionAttributes = NoAttrs
    /\ dispatched.ret.dialogAction.type = "Delegate"
    /\ dispatched.ret.sessionAttributes = [Price |-> 25]

\* C8: whichever slots are absent, if every present slot satisfies its rule
\* (enumerated value in the allow-list, date strictly after today, time
\* HH:MM with the hour inside the intent's window), validation is valid with
\* no violated slot; the all-absent slot set is valid.
C8_ValidWhenAllPresentOK ==
    (pc = "validated" /\ AllOK) => validation = Valid

C8_Witness ==
    /\ pc = "validated"
    /\ IntentName = "MakeDiningSuggestions"
    /\ Slot("Cuisine") = None
    /\ Slot("Location") # None
    /\ Slot("DiningTime") # None
    /\ AllOK
    /\ validation = Valid

\* C9: on every event for which dispatch returns a response, lambda_handler
\* returns that response unchanged and does not raise.
C9_HandlerReturnsDispatched ==
    (pc = "done" /\ dispatched.exc = "none") => returned = dispatched

\* C10: in a conversation of dialog turns in which the host re-invokes the
\* handler with the slots of the previous ElicitSlot response and no new
\* value, every invocation returns ElicitSlot for a slot not elicited before
\* or Delegate, and at most 3 ElicitSlot responses are returned.
C10_RepromptConverges ==
    (pc = "done" /\ Slotted /\ Dialog /\ ~supplied)
    => /\ returned.exc = "none"
       /\ returned.ret.dialogAction.type \in { "ElicitSlot", "Delegate" }
       /\ returned.ret.dialogAction.type = "ElicitSlot"
            => /\ \A i \in 1..Len(elicited) :
                      elicited[i] # returned.ret.dialogAction.slotToElicit
               /\ Len(elicited) + 1 <= 3

\* C10, with the rounds that end in an exception set aside: every round of
\* such a conversation in which the handler returns elicits a slot not
\* elicited before, at most 3 times, or delegates.
C10_ConvergesUnlessRaised ==
    (pc = "done" /\ Slotted /\ Dialog /\ ~supplied /\ returned.exc = "none")
    => /\ returned.ret.dialogAction.type \in { "ElicitSlot", "Delegate" }
       /\ returned.ret.dialogAction.type = "ElicitSlot"
            => /\ \A i \in 1..Len(elicited) :
                      elicited[i] # returned.ret.dialogAction.slotToElicit
               /\ Len(elicited) + 1 <= 3

====
